---- MODULE Spec2Model ----
(***************************************************************************)
(* Verifiable-credential issuance service: issueCredential,                *)
(* verifyCredential, revokeCredential over the issuer registry and the     *)
(* mock KYC database.  Credentials are modelled as JSON objects with       *)
(* insertion-ordered keys so that JSON.stringify with an array replacer    *)
(* (the canonicalisation the service signs) is computed as the engine      *)
(* computes it.                                                            *)
(***************************************************************************)
EXTENDS Integers, Sequences, FiniteSets, TLC

VARIABLES now, ISSUER_REGISTRY, kycDatabase, held, last, inflight

vars == <<now, ISSUER_REGISTRY, kycDatabase, held, last, inflight>>

(***************************************************************************)
(* Bounds of the model.                                                    *)
(***************************************************************************)
\* last instant the clock reaches
MaxTime == 2
\* calls of issueCredential suspended at the same time
MaxInFlight == 2
\* clock ticks in one calendar day
DayTicks == 1
\* edits (revocations, field edits, re-serialisations) made to one credential
MaxEdits == 2

\* requests in one batch
MaxBatch == 2

\* request.expiryDays || 365
DefaultExpiryDays == 365

(***************************************************************************)
(* JSON values.  An object is a sequence of [key, val] entries in          *)
(* insertion order.                                                        *)
(***************************************************************************)
JStr(x) == [k |-> "s", s |-> x]
JNum(x) == [k |-> "n", n |-> x]
JBool(x) == [k |-> "b", b |-> x]
JNull == [k |-> "null"]
JObj(entries) == [k |-> "o", o |-> entries]
JArr(elems) == [k |-> "a", a |-> elems]
Undefined == [k |-> "undefined"]
E(key, v) == [key |-> key, val |-> v]

\* ToBoolean of an optional request field, as `x || fallback` tests it
Falsy(v) ==
  \/ v.k \in {"undefined", "null"}
  \/ v.k = "n" /\ v.n = 0
  \/ v.k = "s" /\ v.s = ""

Range(seq) == {seq[i] : i \in 1..Len(seq)}

\* Object.keys(obj): own keys in insertion order
Keys(obj) == [i \in 1..Len(obj.o) |-> obj.o[i].key]

HasKey(obj, key) == \E i \in 1..Len(obj.o) : obj.o[i].key = key

\* obj[key] (undefined when the property is absent or obj is no object)
Get(obj, key) ==
  IF obj.k = "o" /\ HasKey(obj, key)
    THEN obj.o[CHOOSE i \in 1..Len(obj.o) : obj.o[i].key = key].val
    ELSE Undefined

\* { ...obj, [key]: v }: an existing key keeps its position, a new one is appended
SpreadSet(obj, key, v) ==
  IF HasKey(obj, key)
    THEN JObj([i \in 1..Len(obj.o) |->
                 IF obj.o[i].key = key THEN E(key, v) ELSE obj.o[i]])
    ELSE JObj(Append(obj.o, E(key, v)))

\* const { [key]: _, ...rest } = obj
SpreadWithout(obj, key) == JObj(SelectSeq(obj.o, LAMBDA e : e.key # key))

\* Array.prototype.sort on property names: UTF-16 code unit order
CodeUnitOrder ==
  << "@context", "credentialStatus", "credentialSubject", "decommissionedAt",
     "expirationDate", "id", "issuanceDate", "issuer", "proof", "type" >>

SortKeys(keys) == SelectSeq(CodeUnitOrder, LAMBDA key : key \in Range(keys))

Quote(str) == "\"" \o str \o "\""

BoolText(b) == IF b THEN "true" ELSE "false"

RECURSIVE SerializeJSONProperty(_, _)
RECURSIVE SerializeJSONObject(_, _, _, _)
RECURSIVE SerializeJSONArray(_, _, _)

\* JSON.stringify(value, K) with an array replacer K: K is the property list
\* used for every object at every nesting level, in K's order.
SerializeJSONProperty(v, K) ==
  CASE v.k = "s" -> Quote(v.s)
    [] v.k = "n" -> ToString(v.n)
    [] v.k = "b" -> BoolText(v.b)
    [] v.k = "null" -> "null"
    [] v.k = "o" -> "{" \o SerializeJSONObject(v, K, 1, TRUE) \o "}"
    [] v.k = "a" -> "[" \o SerializeJSONArray(v.a, K, 1) \o "]"

SerializeJSONObject(obj, K, i, first) ==
  IF i > Len(K) THEN ""
  ELSE LET v == Get(obj, K[i]) IN
       IF v.k = "undefined"
         THEN SerializeJSONObject(obj, K, i + 1, first)
         ELSE (IF first THEN "" ELSE ",")
              \o Quote(K[i]) \o ":" \o SerializeJSONProperty(v, K)
              \o SerializeJSONObject(obj, K, i + 1, FALSE)

SerializeJSONArray(elems, K, i) ==
  IF i > Len(elems) THEN ""
  ELSE (IF i = 1 THEN "" ELSE ",")
       \o (IF elems[i].k = "undefined" THEN "null"
           ELSE SerializeJSONProperty(elems[i], K))
       \o SerializeJSONArray(elems, K, i + 1)

\* the property list left in insertion order: JSON.stringify(obj, Object.keys(obj))
CanonicalizeUnsorted(obj) == SerializeJSONProperty(obj, Keys(obj))

\* JSON.stringify(obj, Object.keys(obj).sort())
Canonicalize(obj) == SerializeJSONProperty(obj, SortKeys(Keys(obj)))

(***************************************************************************)
(* Dates: Date.prototype.toISOString and new Date(string).                 *)
(***************************************************************************)
toISOString(t) == "T" \o ToString(t)

NaN == 0 - 1000000

\* d.setDate(d.getDate() + days)
AddDays(t, days) == t + days * DayTicks

\* the day counts the requests ask for, and the instants that then occur
ExpiryDayCounts == {0, 1, DefaultExpiryDays}

DateRange == {AddDays(t, d) : t \in 0..MaxTime, d \in ExpiryDayCounts}

\* new Date(str).getTime(); NaN for a string that is no date
ParseDate(str) ==
  IF \E t \in DateRange : toISOString(t) = str
    THEN CHOOSE t \in DateRange : toISOString(t) = str
    ELSE NaN

\* the comparison with >= in place of >
DateAfterOrEqual(a, b) == a # NaN /\ b # NaN /\ a >= b

\* Date comparison a > b: false when either side is NaN
DateAfter(a, b) == a # NaN /\ b # NaN /\ a > b

(***************************************************************************)
(* Cryptographic utilities.  Hashes and signatures are ideal: a digest or  *)
(* a signature is determined by, and determines, what it was made from.    *)
(***************************************************************************)
sha256Hash(data) == "sha256(" \o data \o ")"

hashPII(value) == "0x" \o sha256Hash(value)

\* generateKeyPair: the key pairs of the configured issuers and one spare
KeyPairs ==
  { [algorithm |-> "Ed25519",   privateKey |-> "54186ec5", publicKey |-> "cd55868e"],
    [algorithm |-> "secp256k1", privateKey |-> "8009afda", publicKey |-> "025c0424"],
    [algorithm |-> "Ed25519",   privateKey |-> "c7528478", publicKey |-> "358812b9"],
    [algorithm |-> "secp256k1", privateKey |-> "0f5a99c0", publicKey |-> "02581552"],
    [algorithm |-> "Ed25519",   privateKey |-> "aa11bb22", publicKey |-> "ee33ff44"] }

\* the hex text of the 64-byte signature the private key makes over the digest
Ed25519SignatureHex(data, privateKeyHex) ==
  "ed25519(" \o privateKeyHex \o "," \o sha256Hash(data) \o ")"

Secp256k1CompactHex(data, privateKeyHex) ==
  "secp256k1(" \o privateKeyHex \o "," \o sha256Hash(data) \o ")"

signWithEd25519(data, privateKeyHex) ==
  "z" \o Ed25519SignatureHex(data, privateKeyHex)

signWithSecp256k1(data, privateKeyHex) ==
  "z" \o Secp256k1CompactHex(data, privateKeyHex)

\* signatureWithPrefix.slice(1) drops the first character, whatever it is
FirstChars == {"z", "x"}

\* Buffer.from(text, 'hex') decodes the leading pairs of hex digits and
\* ignores what follows them: nothing, an unpaired digit, or anything that
\* starts with a character that is no hex digit
IgnoredTails == {"", "0", "zz"}

\* Signature.fromCompact(hex) takes 128 hex digits and nothing else
CompactTails == {""}

Thrown(msg) == [threw |-> TRUE, error |-> msg, value |-> ""]
Returned(v) == [threw |-> FALSE, error |-> "", value |-> v]

\* signing that treats every tag other than 'Ed25519' as secp256k1
signCredentialFallback(credentialData, privateKey, algorithm) ==
  IF algorithm = "Ed25519"
    THEN Returned(signWithEd25519(credentialData, privateKey))
    ELSE Returned(signWithSecp256k1(credentialData, privateKey))

signCredential(credentialData, privateKey, algorithm) ==
  IF algorithm = "Ed25519"
    THEN Returned(signWithEd25519(credentialData, privateKey))
  ELSE IF algorithm = "secp256k1"
    THEN Returned(signWithSecp256k1(credentialData, privateKey))
  ELSE Thrown("Unsupported signature algorithm: " \o algorithm)

\* ed25519.verify on the bytes Buffer.from decodes: true only when they are
\* the signature the matching private key makes over the same digest;
\* anything else (other curve, other key, other data, fewer than 64 bytes
\* decoded) is false, exceptions included (catch -> false)
verifyEd25519(data, signatureWithPrefix, publicKeyHex) ==
  \E kp \in KeyPairs, first \in FirstChars, tail \in IgnoredTails :
    /\ kp.algorithm = "Ed25519"
    /\ kp.publicKey = publicKeyHex
    /\ signatureWithPrefix
         = first \o Ed25519SignatureHex(data, kp.privateKey) \o tail

verifySecp256k1(data, signatureWithPrefix, publicKeyHex) ==
  \E kp \in KeyPairs, first \in FirstChars, tail \in CompactTails :
    /\ kp.algorithm = "secp256k1"
    /\ kp.publicKey = publicKeyHex
    /\ signatureWithPrefix
         = first \o Secp256k1CompactHex(data, kp.privateKey) \o tail

verifySignature(credentialData, signature, publicKey, algorithm) ==
  IF algorithm = "Ed25519"
    THEN Returned(verifyEd25519(credentialData, signature, publicKey))
  ELSE IF algorithm = "secp256k1"
    THEN Returned(verifySecp256k1(credentialData, signature, publicKey))
  ELSE Thrown("Unsupported signature algorithm: " \o algorithm)

generateCredentialId(issuerDid, subjectId, t) ==
  "did:did3:credential:" \o sha256Hash(issuerDid \o ":" \o subjectId \o ":" \o ToString(t))

\* the segment after the last ':' of the identifier
generateStatusUrl(credentialId) ==
  "https://did3.org/credentials/status/" \o "pop(" \o credentialId \o ")"

(***************************************************************************)
(* Issuer registry (config/bank-issuers).                                  *)
(***************************************************************************)
\* ref is the identity of the record object: two records with equal fields
\* can be two objects, and an object edited in place stays the same object
JPMORGAN_ISSUER ==
  [ref |-> "JPMORGAN_ISSUER",
   did |-> "did:did3:bank:jpmorgan", name |-> "JPMorgan Chase Bank, N.A.",
   jurisdiction |-> <<"US">>, regulators |-> <<"OCC", "FINRA", "SEC", "Federal Reserve">>,
   tier |-> 5, privateKey |-> "54186ec5", publicKey |-> "cd55868e",
   signatureAlgorithm |-> "Ed25519"]

GOLDMAN_SACHS_ISSUER ==
  [ref |-> "GOLDMAN_SACHS_ISSUER",
   did |-> "did:did3:bank:goldmansachs", name |-> "Goldman Sachs Bank USA",
   jurisdiction |-> <<"US">>, regulators |-> <<"OCC", "SEC", "FINRA">>,
   tier |-> 5, privateKey |-> "8009afda", publicKey |-> "025c0424",
   signatureAlgorithm |-> "secp256k1"]

HSBC_ISSUER ==
  [ref |-> "HSBC_ISSUER",
   did |-> "did:did3:bank:hsbc", name |-> "HSBC Bank plc",
   jurisdiction |-> <<"UK", "EU", "APAC">>, regulators |-> <<"FCA", "PRA", "ECB">>,
   tier |-> 5, privateKey |-> "c7528478", publicKey |-> "358812b9",
   signatureAlgorithm |-> "Ed25519"]

DBS_ISSUER ==
  [ref |-> "DBS_ISSUER",
   did |-> "did:did3:bank:dbs", name |-> "DBS Bank Ltd",
   jurisdiction |-> <<"SG", "APAC">>, regulators |-> <<"MAS">>,
   tier |-> 4, privateKey |-> "0f5a99c0", publicKey |-> "02581552",
   signatureAlgorithm |-> "secp256k1"]

\* a Map is a function from the keys present to their values
MapOf(records, keyField) ==
  [key \in {r[keyField] : r \in records} |->
     CHOOSE r \in records : r[keyField] = key]

MapSet(map, key, v) ==
  [x \in DOMAIN map \cup {key} |-> IF x = key THEN v ELSE map[x]]

MapDelete(map, key) == [x \in DOMAIN map \ {key} |-> map[x]]

DidOf == "did"

InitialIssuerRegistry ==
  MapOf({JPMORGAN_ISSUER, GOLDMAN_SACHS_ISSUER, HSBC_ISSUER, DBS_ISSUER}, DidOf)

\* ISSUER_REGISTRY.get(did) || null
getIssuerByDid(registry, did) ==
  IF did \in DOMAIN registry THEN registry[did] ELSE JNull

registerIssuer(registry, issuer) == MapSet(registry, issuer.did, issuer)

(***************************************************************************)
(* Mock KYC database (mocks/kyc-database).                                 *)
(***************************************************************************)
Customer(kycId, name, dob, cit, addr, level, accredited, entity, amount, cur, tier, jur, did) ==
  [kycId |-> kycId, name |-> name, dateOfBirth |-> dob, citizenship |-> cit,
   address |-> addr, kycLevel |-> level, amlScreening |-> "passed",
   sanctionsCheck |-> "passed", pepScreening |-> "passed",
   sourceOfFunds |-> "verified", accreditedInvestor |-> accredited,
   entityType |-> entity, verifiedAmount |-> amount, currency |-> cur,
   tier |-> tier, jurisdictions |-> jur, userDid |-> did]

sampleCustomers ==
  { Customer("KYC-001", "Alice Johnson", "1985-03-15", "US", "123 Wall Street",
             "enhanced", TRUE, "individual", 5000000, "USD", 2, <<"US">>,
             "did:did3:user:0x742d"),
    Customer("KYC-002", "Bob Smith", "1990-07-22", "US", "456 Market Street",
             "basic", FALSE, "individual", 100000, "USD", 3, <<"US">>,
             "did:did3:user:0x8f3e"),
    Customer("KYC-003", "Acme Corporation", "2010-01-01", "US", "789 Corporate Blvd",
             "institutional", TRUE, "corporate", 50000000, "USD", 1, <<"US", "EU">>,
             "did:did3:user:0xabcd"),
    Customer("KYC-004", "Chen Wei", "1988-11-30", "SG", "10 Marina Boulevard",
             "enhanced", TRUE, "individual", 3000000, "USD", 2, <<"SG", "APAC">>,
             "did:did3:user:0x1234"),
    Customer("KYC-005", "Maria Garcia", "1992-05-18", "ES", "Calle Gran Via 28",
             "basic", FALSE, "individual", 250000, "EUR", 3, <<"EU">>,
             "did:did3:user:0x9876") }

KycIdOf == "kycId"

\* initializeMockDatabase
initializeMockDatabase == MapOf(sampleCustomers, KycIdOf)

\* kycDatabase.get(kycId) || null
getCustomerKYC(db, kycId) == IF kycId \in DOMAIN db THEN db[kycId] ELSE JNull

upsertCustomerKYC(db, customer) == MapSet(db, customer.kycId, customer)

deleteCustomerKYC(db, kycId) == MapDelete(db, kycId)

(***************************************************************************)
(* services/credential-issuer                                              *)
(***************************************************************************)
JStrings(seq) == JArr([i \in 1..Len(seq) |-> JStr(seq[i])])

\* a credentialSubject whose tier is derived from the requested level
BuildCredentialSubjectFromRequest(request, kycData, subjectDid) ==
  JObj(<<
    E("id", JStr(subjectDid)),
    E("hashedPII", JObj(<<
      E("name", JStr(hashPII(kycData.name))),
      E("dateOfBirth", JStr(hashPII(kycData.dateOfBirth))),
      E("citizenship", JStr(hashPII(kycData.citizenship))),
      E("address", JStr(hashPII(kycData.address))) >>)),
    E("claims", JObj(<<
      E("kycLevel", JStr(kycData.kycLevel)),
      E("amlScreening", JStr(kycData.amlScreening)),
      E("sanctionsCheck", JStr(kycData.sanctionsCheck)),
      E("pepScreening", JStr(kycData.pepScreening)),
      E("sourceOfFunds", JStr(kycData.sourceOfFunds)),
      E("accreditedInvestor", JBool(kycData.accreditedInvestor)),
      E("entityType", JStr(kycData.entityType)) >>)),
    E("amountVerifiedFor", JObj(<<
      E("value", JNum(kycData.verifiedAmount)),
      E("currency", JStr(kycData.currency)) >>)),
    E("tier", JNum(IF request.kycLevel = "basic" THEN 1 ELSE 2)),
    E("jurisdictions", JStrings(request.jurisdiction)) >>)

\* step 7 of issueCredential
BuildCredentialSubject(request, kycData, subjectDid) ==
  JObj(<<
    E("id", JStr(subjectDid)),
    E("hashedPII", JObj(<<
      E("name", JStr(hashPII(kycData.name))),
      E("dateOfBirth", JStr(hashPII(kycData.dateOfBirth))),
      E("citizenship", JStr(hashPII(kycData.citizenship))),
      E("address", JStr(hashPII(kycData.address))) >>)),
    E("claims", JObj(<<
      E("kycLevel", JStr(kycData.kycLevel)),
      E("amlScreening", JStr(kycData.amlScreening)),
      E("sanctionsCheck", JStr(kycData.sanctionsCheck)),
      E("pepScreening", JStr(kycData.pepScreening)),
      E("sourceOfFunds", JStr(kycData.sourceOfFunds)),
      E("accreditedInvestor", JBool(kycData.accreditedInvestor)),
      E("entityType", JStr(kycData.entityType)) >>)),
    E("amountVerifiedFor", JObj(<<
      E("value", JNum(kycData.verifiedAmount)),
      E("currency", JStr(kycData.currency)) >>)),
    E("tier", JNum(kycData.tier)),
    E("jurisdictions", JStrings(request.jurisdiction)) >>)

\* step 8 of issueCredential
BuildUnsignedCredential(issuer, credentialId, issuanceDate, expirationDate, credentialSubject, tokenId) ==
  JObj(<<
    E("@context", JStrings(<<"https://www.w3.org/2018/credentials/v1",
                             "https://did3.org/contexts/credentials/v1">>)),
    E("id", JStr(credentialId)),
    E("type", JStrings(<<"VerifiableCredential", "KYCCredential">>)),
    E("issuer", JObj(<<
      E("id", JStr(issuer.did)),
      E("name", JStr(issuer.name)),
      E("jurisdiction", JStrings(issuer.jurisdiction)),
      E("regulators", JStrings(issuer.regulators)),
      E("tier", JNum(issuer.tier)) >>)),
    E("issuanceDate", JStr(toISOString(issuanceDate))),
    E("expirationDate", JStr(toISOString(expirationDate))),
    E("credentialSubject", credentialSubject),
    E("decommissionedAt", JNull),
    E("credentialStatus", JObj(<<
      E("id", JStr(generateStatusUrl(credentialId))),
      E("type", JStr("DID3RevocationRegistry")),
      E("registryContract", JStr("0x0000000000000000000000000000000000000000")),
      E("tokenId", JStr(tokenId)) >>)) >>)

\* steps 10-12 with the issuer's registered algorithm, whatever the request asks
SignAndAttachProofRegistered(request, issuer, unsignedCredential, issuanceDate) ==
  LET canonicalData == Canonicalize(unsignedCredential)
      signatureAlgorithm == issuer.signatureAlgorithm
      signed == signCredential(canonicalData, issuer.privateKey, signatureAlgorithm)
      proofType ==
        IF signatureAlgorithm = "Ed25519"
          THEN "Ed25519Signature2020"
          ELSE "EcdsaSecp256k1Signature2019"
      proof == JObj(<<
        E("type", JStr(proofType)),
        E("created", JStr(toISOString(issuanceDate))),
        E("verificationMethod", JStr(issuer.did \o "#key-1")),
        E("proofPurpose", JStr("assertionMethod")),
        E("proofValue", JStr(signed.value)) >>)
  IN IF signed.threw
       THEN Thrown(signed.error)
       ELSE Returned(SpreadSet(unsignedCredential, "proof", proof))

\* steps 10-12 of issueCredential
SignAndAttachProof(request, issuer, unsignedCredential, issuanceDate) ==
  LET canonicalData == Canonicalize(unsignedCredential)
      signatureAlgorithm ==
        IF Falsy(request.signatureAlgorithm)
          THEN issuer.signatureAlgorithm
          ELSE request.signatureAlgorithm.s
      signed == signCredential(canonicalData, issuer.privateKey, signatureAlgorithm)
      proofType ==
        IF signatureAlgorithm = "Ed25519"
          THEN "Ed25519Signature2020"
          ELSE "EcdsaSecp256k1Signature2019"
      proof == JObj(<<
        E("type", JStr(proofType)),
        E("created", JStr(toISOString(issuanceDate))),
        E("verificationMethod", JStr(issuer.did \o "#key-1")),
        E("proofPurpose", JStr("assertionMethod")),
        E("proofValue", JStr(signed.value)) >>)
  IN IF signed.threw
       THEN Thrown(signed.error)
       ELSE Returned(SpreadSet(unsignedCredential, "proof", proof))

\* the screening test with the PEP check left out
PassedAmlAndSanctions(kycData) ==
  ~ \/ kycData.amlScreening # "passed"
    \/ kycData.sanctionsCheck # "passed"

\* step 3 of issueCredential: all checks must pass
PassedAllChecks(kycData) ==
  ~ \/ kycData.amlScreening # "passed"
    \/ kycData.sanctionsCheck # "passed"
    \/ kycData.pepScreening # "passed"

\* steps 5 to 12 of issueCredential, for a request that passed steps 1 to 4
IssueValidated(request, issuer, kycData, t, tokenId) ==
  LET subjectDid ==
        IF kycData.userDid # "" THEN kycData.userDid
        ELSE "did:did3:user:" \o request.customerKycId
      credentialId == generateCredentialId(issuer.did, subjectDid, t)
      issuanceDate == t
      expiryDays ==
        IF Falsy(request.expiryDays) THEN DefaultExpiryDays
        ELSE request.expiryDays.n
      expirationDate == AddDays(issuanceDate, expiryDays)
      credentialSubject == BuildCredentialSubject(request, kycData, subjectDid)
      unsignedCredential ==
        BuildUnsignedCredential(issuer, credentialId, issuanceDate,
                                expirationDate, credentialSubject, tokenId)
  IN SignAndAttachProof(request, issuer, unsignedCredential, issuanceDate)

\* issueCredential with the KYC-level match tested before the screening
issueCredentialLevelFirst(request, registry, db, t, tokenId) ==
  LET issuer == getIssuerByDid(registry, request.issuerDid)
      kycData == getCustomerKYC(db, request.customerKycId)
  IN
  IF issuer = JNull
    THEN Thrown("Invalid issuer DID: " \o request.issuerDid)
  ELSE IF kycData = JNull
    THEN Thrown("Customer not found: " \o request.customerKycId)
  ELSE IF request.kycLevel # kycData.kycLevel
    THEN Thrown("KYC level mismatch: requested " \o request.kycLevel
                \o ", customer has " \o kycData.kycLevel)
  ELSE IF ~PassedAllChecks(kycData)
    THEN Thrown("Customer has not passed all required KYC checks")
  ELSE IF request.accreditedInvestor # kycData.accreditedInvestor
    THEN Thrown("Accredited investor status mismatch")
  ELSE IssueValidated(request, issuer, kycData, t, tokenId)

\* issueCredential(request) at clock reading t, Math.random() giving tokenId
issueCredential(request, registry, db, t, tokenId) ==
  LET issuer == getIssuerByDid(registry, request.issuerDid)
      kycData == getCustomerKYC(db, request.customerKycId)
  IN
  IF issuer = JNull
    THEN Thrown("Invalid issuer DID: " \o request.issuerDid)
  ELSE IF kycData = JNull
    THEN Thrown("Customer not found: " \o request.customerKycId)
  ELSE IF ~PassedAllChecks(kycData)
    THEN Thrown("Customer has not passed all required KYC checks")
  ELSE IF request.kycLevel # kycData.kycLevel
    THEN Thrown("KYC level mismatch: requested " \o request.kycLevel
                \o ", customer has " \o kycData.kycLevel)
  ELSE IF request.accreditedInvestor # kycData.accreditedInvestor
    THEN Thrown("Accredited investor status mismatch")
  ELSE IssueValidated(request, issuer, kycData, t, tokenId)

\* issueCredential up to its await: steps 1 to 4 throw as in issueCredential,
\* otherwise the call is suspended holding the locals the rest of it reads
issueCredentialBegin(request, registry, db, t, tokenId) ==
  LET issuer == getIssuerByDid(registry, request.issuerDid)
      kycData == getCustomerKYC(db, request.customerKycId)
      validated ==
        /\ issuer # JNull
        /\ kycData # JNull
        /\ PassedAllChecks(kycData)
        /\ request.kycLevel = kycData.kycLevel
        /\ request.accreditedInvestor = kycData.accreditedInvestor
  IN IF validated
       THEN Returned([request |-> request, issuer |-> issuer, kycData |-> kycData,
                      at |-> t, tokenId |-> tokenId])
       ELSE issueCredential(request, registry, db, t, tokenId)

\* a continuation that looks the issuer and the customer up again
issueCredentialResumeRereading(frame, registry, db) ==
  LET issuer == getIssuerByDid(registry, frame.request.issuerDid)
      kycData == getCustomerKYC(db, frame.request.customerKycId)
  IN IF issuer = JNull \/ kycData = JNull
       THEN Thrown("Cannot read properties of undefined")
       ELSE IssueValidated(frame.request, issuer, kycData, frame.at, frame.tokenId)

\* issueCredential from its await on: the stores are not read again
issueCredentialResume(frame, registry, db) ==
  IssueValidated(frame.request, frame.issuer, frame.kycData, frame.at, frame.tokenId)

\* the two checks as an if / else-if: the second is skipped after the first
StateCheckErrorsShortCircuit(credential, t) ==
  IF DateAfter(t, ParseDate(Get(credential, "expirationDate").s))
    THEN <<"Credential has expired">>
  ELSE IF Get(credential, "decommissionedAt") # JNull
    THEN <<"Credential has been decommissioned">>
  ELSE <<>>

\* steps 1 and 2 of verifyCredential: the expiration and decommission checks
StateCheckErrors(credential, t) ==
  LET expirationDate == ParseDate(Get(credential, "expirationDate").s)
      e1 == IF DateAfter(t, expirationDate)
              THEN <<"Credential has expired">> ELSE <<>>
  IN IF Get(credential, "decommissionedAt") # JNull
       THEN Append(e1, "Credential has been decommissioned") ELSE e1

\* the unknown-issuer return with a fresh error list
UnknownIssuerResultAlone(errors) ==
  [valid |-> FALSE, errors |-> <<"Unknown issuer">>,
   sigChecked |-> FALSE, sigValid |-> FALSE]

\* step 3 of verifyCredential when the issuer is not registered
UnknownIssuerResult(errors) ==
  [valid |-> FALSE, errors |-> Append(errors, "Unknown issuer"),
   sigChecked |-> FALSE, sigValid |-> FALSE]

\* the result with valid taken from the signature check alone
CheckedResultSignatureOnly(errors, signatureValid) ==
  [valid |-> signatureValid, errors |-> errors,
   sigChecked |-> TRUE, sigValid |-> signatureValid]

\* the result verifyCredential returns after the signature check
CheckedResult(errors, signatureValid) ==
  [valid |-> Len(errors) = 0 /\ signatureValid, errors |-> errors,
   sigChecked |-> TRUE, sigValid |-> signatureValid]

\* x.prop throws a TypeError when x is undefined or null
Nullish(v) == v.k \in {"undefined", "null"}

CannotRead(v, prop) ==
  "Cannot read properties of " \o v.k \o " (reading '" \o prop \o "')"

\* the catch block of verifyCredential
CaughtResult(errors, message) ==
  [valid |-> FALSE, errors |-> Append(errors, "Verification error: " \o message),
   sigChecked |-> FALSE, sigValid |-> FALSE]

\* verifyCredential(credential) at clock reading t; sigChecked and sigValid
\* record whether verifySignature returned, and what
verifyCredential(credential, registry, t) ==
  LET e2 == StateCheckErrors(credential, t)
      issuerBlock == Get(credential, "issuer")
      proof == Get(credential, "proof")
  IN
  IF Nullish(issuerBlock)
    THEN CaughtResult(e2, CannotRead(issuerBlock, "id"))
  ELSE IF getIssuerByDid(registry, Get(issuerBlock, "id").s) = JNull
    THEN UnknownIssuerResult(e2)
  ELSE IF Nullish(proof)
    THEN CaughtResult(e2, CannotRead(proof, "proofValue"))
  ELSE
    LET issuer == getIssuerByDid(registry, Get(issuerBlock, "id").s)
        credentialWithoutProof == SpreadWithout(credential, "proof")
        canonicalData == Canonicalize(credentialWithoutProof)
        checked == verifySignature(canonicalData, Get(proof, "proofValue").s,
                                   issuer.publicKey, issuer.signatureAlgorithm)
    IN IF checked.threw
         THEN CaughtResult(e2, checked.error)
         ELSE CheckedResult(IF ~checked.value THEN Append(e2, "Invalid signature")
                            ELSE e2,
                            checked.value)

\* revocation as a toggle: an already revoked credential is made active again
revokeCredentialToggle(credential, t) ==
  IF Get(credential, "decommissionedAt") # JNull
    THEN SpreadSet(credential, "decommissionedAt", JNull)
    ELSE SpreadSet(credential, "decommissionedAt", JStr(toISOString(t)))

\* revokeCredential(credential) at clock reading t
revokeCredential(credential, t) ==
  SpreadSet(credential, "decommissionedAt", JStr(toISOString(t)))

\* one pass of the loop body with the successful credential put first
batchStepUnshift(acc, request, out) ==
  IF out.threw
    THEN [acc EXCEPT !.failed = Append(@, [request |-> request, error |-> out.error])]
    ELSE [acc EXCEPT !.successful = <<out.value>> \o @]

\* one pass of the loop body with an empty catch block
batchStepSwallow(acc, request, out) ==
  IF out.threw
    THEN acc
    ELSE [acc EXCEPT !.successful = Append(@, out.value)]

\* one pass of the loop body of batchIssueCredentials: out is what
\* issueCredential(request) gave
batchStep(acc, request, out) ==
  IF out.threw
    THEN [acc EXCEPT !.failed = Append(@, [request |-> request, error |-> out.error])]
    ELSE [acc EXCEPT !.successful = Append(@, out.value)]

RECURSIVE batchLoop(_, _, _, _, _, _, _)
\* for (const request of requests) from the i-th request on
batchLoop(requests, i, acc, registry, db, t, tokenId) ==
  IF i > Len(requests) THEN acc
  ELSE batchLoop(requests, i + 1,
                 batchStep(acc, requests[i],
                           issueCredential(requests[i], registry, db, t, tokenId)),
                 registry, db, t, tokenId)

\* batchIssueCredentials(requests), every request served at clock reading t
batchIssueCredentials(requests, registry, db, t, tokenId) ==
  batchLoop(requests, 1, [successful |-> <<>>, failed |-> <<>>],
            registry, db, t, tokenId)

(***************************************************************************)
(* api/routes: the two issuance routes.                                    *)
(***************************************************************************)
BadRequest(error) == [status |-> 400, error |-> error]

\* the required-field checks of POST /credentials/issue ("" when all pass)
MissingField(request) ==
  IF request.customerKycId = "" THEN "customerKycId"
  ELSE IF request.issuerDid = "" THEN "issuerDid"
  ELSE IF request.kycLevel = "" THEN "kycLevel"
  ELSE IF Len(request.jurisdiction) = 0 THEN "jurisdiction"
  ELSE ""

\* router.post('/credentials/issue')
postCredentialsIssue(request, registry, db, t, tokenId) ==
  IF MissingField(request) # ""
    THEN BadRequest("Missing required field: " \o MissingField(request))
  ELSE LET out == issueCredential(request, registry, db, t, tokenId) IN
       IF out.threw
         THEN [status |-> 400, error |-> "Failed to issue credential",
               message |-> out.error]
         ELSE [status |-> 201, success |-> TRUE, credential |-> out.value]

\* router.post('/credentials/batch-issue')
postCredentialsBatchIssue(requests, registry, db, t, tokenId) ==
  IF Len(requests) = 0
    THEN BadRequest("Invalid request: expected array of credential requests")
  ELSE LET result == batchIssueCredentials(requests, registry, db, t, tokenId) IN
       [status |-> 200, success |-> TRUE, totalRequests |-> Len(requests),
        successful |-> Len(result.successful), failed |-> Len(result.failed),
        credentials |-> result.successful, errors |-> result.failed]

(***************************************************************************)
(* Callers: what the clients of the service hold and send.                 *)
(***************************************************************************)
UNKNOWN_DID == "did:did3:bank:unknown"

RequestIssuers == {JPMORGAN_ISSUER.did, GOLDMAN_SACHS_ISSUER.did, UNKNOWN_DID}

RequestCustomers == {"KYC-001", "KYC-002", "KYC-404"}

\* IssueCredentialRequest values the callers send
Requests ==
  [customerKycId : RequestCustomers,
   issuerDid : RequestIssuers,
   kycLevel : {"enhanced", "basic"},
   accreditedInvestor : BOOLEAN,
   jurisdiction : {<<"US">>},
   expiryDays : {Undefined, JNum(1)},
   signatureAlgorithm : {Undefined, JStr("Ed25519"), JStr("secp256k1"), JStr("RSA")}]

\* the requests of the holder whose credential is followed after issuance
HolderRequests ==
  {r \in Requests : /\ r.customerKycId = "KYC-001"
                    /\ r.kycLevel = "enhanced"
                    /\ r.accreditedInvestor
                    /\ r.issuerDid = UNKNOWN_DID =>
                         Falsy(r.expiryDays) /\ Falsy(r.signatureAlgorithm)}

\* Math.floor(Math.random() * 100000).toString()
TokenIds == {"0", "99999"}

\* records passed to upsertCustomerKYC: KYC-002 re-screened, KYC-001 failing
\* the PEP screening
Rescreened(aml, sanctions, pep) ==
  [ (CHOOSE c \in sampleCustomers : c.kycId = "KYC-002")
      EXCEPT !.amlScreening = aml, !.sanctionsCheck = sanctions, !.pepScreening = pep ]

UpsertCandidates ==
  { [ (CHOOSE c \in sampleCustomers : c.kycId = "KYC-001")
        EXCEPT !.pepScreening = "failed" ],
    Rescreened("pending", "passed", "passed"),
    Rescreened("passed", "failed", "passed"),
    Rescreened("passed", "passed", "failed"),
    Rescreened("failed", "pending", "passed") }

\* records passed to registerIssuer: JPMorgan with a rotated key pair, and back
RegisterCandidates ==
  { JPMORGAN_ISSUER,
    [JPMORGAN_ISSUER EXCEPT !.ref = "rotated",
                            !.privateKey = "aa11bb22", !.publicKey = "ee33ff44"] }

\* obj.a.b = v on a copy of obj
SetIn(obj, outer, inner, v) ==
  SpreadSet(obj, outer, SpreadSet(Get(obj, outer), inner, v))

SetIn3(obj, outer, mid, inner, v) ==
  SpreadSet(obj, outer, SetIn(Get(obj, outer), mid, inner, v))

TamperKinds ==
  {"credentialSubject.id", "claims.kycLevel", "amountVerifiedFor.value", "tier",
   "issuer.id", "proofValue"}

\* a holder edits one field of a credential it holds
Tampered(credential, kind) ==
  CASE kind = "credentialSubject.id" ->
         SetIn(credential, "credentialSubject", "id", JStr("did:did3:user:0xevil"))
    [] kind = "claims.kycLevel" ->
         SetIn3(credential, "credentialSubject", "claims", "kycLevel", JStr("institutional"))
    [] kind = "amountVerifiedFor.value" ->
         SetIn3(credential, "credentialSubject", "amountVerifiedFor", "value", JNum(999999999))
    [] kind = "tier" ->
         SetIn(credential, "credentialSubject", "tier", JNum(1))
    [] kind = "issuer.id" ->
         SetIn(credential, "issuer", "id", JStr(UNKNOWN_DID))
    [] kind = "proofValue" ->
         SetIn(credential, "proof", "proofValue", JStr("zz"))

Reverse(seq) == [i \in 1..Len(seq) |-> seq[Len(seq) + 1 - i]]

RECURSIVE ReverseDeep(_)
\* the same value with the properties of every object inserted in reverse order
ReverseDeep(v) ==
  CASE v.k = "o" ->
         JObj(Reverse([i \in 1..Len(v.o) |-> E(v.o[i].key, ReverseDeep(v.o[i].val))]))
    [] v.k = "a" -> JArr([i \in 1..Len(v.a) |-> ReverseDeep(v.a[i])])
    [] OTHER -> v

\* a holder re-serialises a credential with another property order
Reordered(credential) == ReverseDeep(credential)

\* what a holder holds: the credential, which edits were made to it since
\* issuance and how many, and the issuer record it was issued under
Entry(credential, edits, count, issuer) ==
  [credential |-> credential, edits |-> edits, count |-> count, issuer |-> issuer]

Edited(entry, credential, edit) ==
  Entry(credential, entry.edits \cup {edit}, entry.count + 1, entry.issuer)

Init ==
  /\ now = 0
  /\ ISSUER_REGISTRY = InitialIssuerRegistry
  /\ kycDatabase = initializeMockDatabase
  /\ held = <<>>
  /\ last = [op |-> "init"]
  /\ inflight = {}

\* the wall clock advances
Tick ==
  /\ now < MaxTime
  /\ now' = now + 1
  /\ last' = [op |-> "tick"]
  /\ UNCHANGED <<inflight, ISSUER_REGISTRY, kycDatabase, held>>

RegisterIssuer ==
  \E issuer \in RegisterCandidates :
    /\ ISSUER_REGISTRY' = registerIssuer(ISSUER_REGISTRY, issuer)
    /\ last' = [op |-> "registerIssuer", did |-> issuer.did]
    /\ UNCHANGED <<inflight, now, kycDatabase, held>>

UpsertCustomerKYC ==
  \E customer \in UpsertCandidates :
    /\ kycDatabase' = upsertCustomerKYC(kycDatabase, customer)
    /\ last' = [op |-> "upsertCustomerKYC", kycId |-> customer.kycId]
    /\ UNCHANGED <<inflight, now, ISSUER_REGISTRY, held>>

DeleteCustomerKYC ==
  \E kycId \in RequestCustomers :
    /\ kycDatabase' = deleteCustomerKYC(kycDatabase, kycId)
    /\ last' = [op |-> "deleteCustomerKYC", kycId |-> kycId,
                deleted |-> kycId \in DOMAIN kycDatabase]
    /\ UNCHANGED <<inflight, now, ISSUER_REGISTRY, held>>

\* a call that drops the customer's record once the credential is made
issueCallConsuming(request, registry, db, t, tokenId) ==
  LET out == issueCredential(request, registry, db, t, tokenId) IN
  [out |-> out, registry |-> registry,
   db |-> IF out.threw THEN db ELSE deleteCustomerKYC(db, request.customerKycId)]

\* a call issueCredential(request): what it gives and the two stores as they
\* are after it (getIssuerByDid and getCustomerKYC read, nothing is written)
issueCall(request, registry, db, t, tokenId) ==
  [out |-> issueCredential(request, registry, db, t, tokenId),
   registry |-> registry, db |-> db]

\* a call of issueCredential with a request of reqs
IssueBy(reqs, tokens) ==
  \E request \in reqs, tokenId \in tokens :
    LET call == issueCall(request, ISSUER_REGISTRY, kycDatabase, now, tokenId)
        out == call.out
    IN
    /\ IF out.threw
         THEN /\ held' = held
              /\ last' = [op |-> "issue", request |-> request, threw |-> TRUE,
                          error |-> out.error, at |-> now]
         ELSE /\ held' = << Entry(out.value, {}, 0,
                                  getIssuerByDid(ISSUER_REGISTRY, request.issuerDid)) >>
              /\ last' = [op |-> "issue", request |-> request, threw |-> FALSE,
                          error |-> "", at |-> now]
    /\ ISSUER_REGISTRY' = call.registry
    /\ kycDatabase' = call.db
    /\ UNCHANGED <<inflight, now>>

\* the holder asks for a credential when it holds none
Issue == held = <<>> /\ IssueBy(HolderRequests, {"0"})

\* the holder presents its credential to verifyCredential
Verify ==
  /\ held # <<>>
  /\ last' = [op |-> "verify", at |-> now,
              result |-> verifyCredential(held[1].credential, ISSUER_REGISTRY, now)]
  /\ UNCHANGED <<inflight, now, ISSUER_REGISTRY, kycDatabase, held>>

\* revocation that writes decommissionedAt into its argument and returns it
revokeCallInPlace(credential, t) ==
  [input |-> revokeCredential(credential, t),
   output |-> revokeCredential(credential, t)]

\* a call revokeCredential(credential): the argument object as it is after the
\* call, and the object returned
revokeCall(credential, t) ==
  [input |-> credential, output |-> revokeCredential(credential, t)]

\* the holder's credential is revoked; the holder keeps the returned copy
Revoke ==
  /\ held # <<>>
  /\ held[1].count < MaxEdits
  /\ LET call == revokeCall(held[1].credential, now) IN
     /\ held' = << Edited(held[1], call.output, "revoke") >>
     /\ last' = [op |-> "revoke", at |-> now, input |-> call.input]
  /\ UNCHANGED <<inflight, now, ISSUER_REGISTRY, kycDatabase>>

Tamper ==
  \E kind \in TamperKinds :
    /\ held # <<>>
    /\ held[1].count < MaxEdits
    /\ kind \notin held[1].edits
    /\ held' = << Edited(held[1], Tampered(held[1].credential, kind), kind) >>
    /\ last' = [op |-> "tamper", kind |-> kind, input |-> held[1].credential]
    /\ UNCHANGED <<inflight, now, ISSUER_REGISTRY, kycDatabase>>

Reorder ==
  /\ held # <<>>
  /\ held[1].count < MaxEdits
  /\ held' = << Edited(held[1], Reordered(held[1].credential), "reorder") >>
  /\ last' = [op |-> "reorder", input |-> held[1].credential]
  /\ UNCHANGED <<inflight, now, ISSUER_REGISTRY, kycDatabase>>

\* the holder discards the credential
Drop ==
  /\ held # <<>>
  /\ held' = <<>>
  /\ last' = [op |-> "drop"]
  /\ UNCHANGED <<inflight, now, ISSUER_REGISTRY, kycDatabase>>

Next ==
  \/ Tick
  \/ RegisterIssuer
  \/ Issue
  \/ Verify
  \/ Revoke
  \/ Tamper
  \/ Reorder
  \/ Drop

Spec == Init /\ [][Next]_vars

(***************************************************************************)
(* issueCredential on its own: the stores are edited and any request is    *)
(* sent; the credential is followed no further.                            *)
(***************************************************************************)
\* a request sent right after a rejected one meets the same stores and has the
\* same outcomes, so it is not explored again
IssueAny == held = <<>> /\ last.op # "issue" /\ IssueBy(Requests, TokenIds)

NextIssue ==
  \/ Tick
  \/ RegisterIssuer
  \/ UpsertCustomerKYC
  \/ DeleteCustomerKYC
  \/ IssueAny

SpecIssue == Init /\ [][NextIssue]_vars

(***************************************************************************)
(* verifyCredential on malformed input: credentials with parts missing or  *)
(* a proof value that is no well-formed signature text, and an issuer      *)
(* record whose algorithm the service does not know.                       *)
(***************************************************************************)
MalformKinds ==
  {"issuer.missing", "proof.missing", "proofValue.tail", "proofValue.odd",
   "proofValue.short"}

ProofValueOf(credential) == Get(Get(credential, "proof"), "proofValue")

\* what a client sends to verification in place of the credential it holds
Malformed(credential, kind) ==
  CASE kind = "issuer.missing" -> SpreadWithout(credential, "issuer")
    [] kind = "proof.missing" -> SpreadWithout(credential, "proof")
    [] kind = "proofValue.tail" ->
         SetIn(credential, "proof", "proofValue",
               JStr(ProofValueOf(credential).s \o "zz"))
    [] kind = "proofValue.odd" ->
         SetIn(credential, "proof", "proofValue",
               JStr(ProofValueOf(credential).s \o "0"))
    [] kind = "proofValue.short" ->
         SetIn(credential, "proof", "proofValue", JStr("zab"))

\* an issuer record with an algorithm outside SignatureAlgorithm
UnrecognizedAlgorithmIssuer ==
  [JPMORGAN_ISSUER EXCEPT !.ref = "unrecognized", !.signatureAlgorithm = "RSA"]

RegisterUnrecognized ==
  /\ ISSUER_REGISTRY' = registerIssuer(ISSUER_REGISTRY, UnrecognizedAlgorithmIssuer)
  /\ last' = [op |-> "registerIssuer", did |-> UnrecognizedAlgorithmIssuer.did]
  /\ UNCHANGED <<inflight, now, kycDatabase, held>>

\* the holder damages the credential once
Malform ==
  \E kind \in MalformKinds :
    /\ held # <<>>
    /\ held[1].count = 0
    /\ held' = << Edited(held[1], Malformed(held[1].credential, kind), kind) >>
    /\ last' = [op |-> "malform", kind |-> kind, input |-> held[1].credential]
    /\ UNCHANGED <<inflight, now, ISSUER_REGISTRY, kycDatabase>>

NextVerify ==
  \/ Tick
  \/ RegisterIssuer
  \/ RegisterUnrecognized
  \/ Issue
  \/ Malform
  \/ Verify
  \/ Drop

SpecVerify == Init /\ [][NextVerify]_vars

(***************************************************************************)
(* Revocation undone by the holder: decommissionedAt of a revoked copy is  *)
(* set back to null before the copy is presented.                          *)
(***************************************************************************)
Restored(credential) == SpreadSet(credential, "decommissionedAt", JNull)

Restore ==
  /\ held # <<>>
  /\ held[1].count < MaxEdits
  /\ Get(held[1].credential, "decommissionedAt") # JNull
  /\ held' = << Edited(held[1], Restored(held[1].credential), "restore") >>
  /\ last' = [op |-> "restore", input |-> held[1].credential]
  /\ UNCHANGED <<inflight, now, ISSUER_REGISTRY, kycDatabase>>

NextRevoke ==
  \/ Tick
  \/ Issue
  \/ Revoke
  \/ Restore
  \/ Verify
  \/ Drop

SpecRevoke == Init /\ [][NextRevoke]_vars

(***************************************************************************)
(* Concurrent issuance: calls of issueCredential are suspended at their    *)
(* await while other calls begin and the stores are updated.               *)
(***************************************************************************)
ConcurrentRequests ==
  {r \in Requests : /\ r.issuerDid = JPMORGAN_ISSUER.did
                    /\ r.customerKycId \in {"KYC-001", "KYC-002"}
                    /\ Falsy(r.expiryDays)
                    /\ r.signatureAlgorithm = Undefined
                    /\ r.accreditedInvestor <=> r.kycLevel = "enhanced"
                    /\ r.accreditedInvestor <=> r.customerKycId = "KYC-001"}

\* the part of a store a call reads: the one record under key, if present
RecordRead(store, key) == [k \in DOMAIN store \cap {key} |-> store[k]]

\* a call runs to its await; registry and db are what its two lookups met.
\* inflight is the set of suspended calls: two calls with the same request,
\* begun at the same instant on the same records, are one element
BeginIssue ==
  \E request \in ConcurrentRequests :
    LET begun == issueCredentialBegin(request, ISSUER_REGISTRY, kycDatabase, now, "0") IN
    /\ Cardinality(inflight) < MaxInFlight
    /\ IF begun.threw
         THEN /\ inflight' = inflight
              /\ last' = [op |-> "issue", request |-> request, threw |-> TRUE,
                          error |-> begun.error, at |-> now]
         ELSE /\ inflight' = inflight \cup
                   {[frame |-> begun.value,
                     registry |-> RecordRead(ISSUER_REGISTRY, request.issuerDid),
                     db |-> RecordRead(kycDatabase, request.customerKycId)]}
              /\ last' = [op |-> "begin", request |-> request, at |-> now]
    /\ UNCHANGED <<now, ISSUER_REGISTRY, kycDatabase, held>>

\* one of the suspended calls is resumed and returns
ResumeIssue ==
  \E call \in inflight :
    /\ inflight' = inflight \ {call}
    /\ last' = [op |-> "resume", call |-> call,
                out |-> issueCredentialResume(call.frame, ISSUER_REGISTRY,
                                              kycDatabase)]
    /\ UNCHANGED <<now, ISSUER_REGISTRY, kycDatabase, held>>

\* the clock is read once, before the await (issuanceDate), and stands still
NextConcurrent ==
  \/ RegisterIssuer
  \/ UpsertCustomerKYC
  \/ DeleteCustomerKYC
  \/ BeginIssue
  \/ ResumeIssue

SpecConcurrent == Init /\ [][NextConcurrent]_vars

(***************************************************************************)
(* Algorithm tags: requests and issuer records with the two supported      *)
(* tags and with one the signature module does not know, through           *)
(* issueCredential, batchIssueCredentials and verifyCredential.            *)
(***************************************************************************)
AlgorithmRequests ==
  {r \in HolderRequests : r.issuerDid = JPMORGAN_ISSUER.did /\ Falsy(r.expiryDays)}

AlgorithmBatchLists ==
  UNION { [1..n -> AlgorithmRequests] : n \in 0..MaxBatch }

IssueAlgorithm == held = <<>> /\ IssueBy(AlgorithmRequests, {"0"})

\* a batch met the stores the batch before it met, and is not explored twice
BatchAlgorithm ==
  \E requests \in AlgorithmBatchLists :
    /\ held = <<>> /\ last.op # "batch"
    /\ last' = [op |-> "batch", requests |-> requests, at |-> now,
                result |-> batchIssueCredentials(requests, ISSUER_REGISTRY,
                                                 kycDatabase, now, "0")]
    /\ UNCHANGED <<inflight, now, ISSUER_REGISTRY, kycDatabase, held>>

NextAlgorithm ==
  \/ Tick
  \/ RegisterIssuer
  \/ RegisterUnrecognized
  \/ IssueAlgorithm
  \/ BatchAlgorithm
  \/ Verify
  \/ Drop

SpecAlgorithm == Init /\ [][NextAlgorithm]_vars

(***************************************************************************)
(* The issuer record after issuance: the registered record of an issuer is *)
(* replaced through registerIssuer, or edited in place through the         *)
(* reference getIssuerByDid returns.  A credential kept in the process     *)
(* holds, in its issuer block, the jurisdiction and regulators arrays of   *)
(* the record object it was issued from.                                   *)
(***************************************************************************)
EditedDid == JPMORGAN_ISSUER.did

\* a record built by the caller of registerIssuer, with other details
ReRegisteredIssuer ==
  [JPMORGAN_ISSUER EXCEPT !.ref = "re-registered",
                          !.name = "JPMorgan Chase & Co.",
                          !.jurisdiction = <<"US", "UK">>,
                          !.regulators = <<"OCC">>,
                          !.tier = 4]

\* registerIssuer with a record the caller has built: once, so that one ref
\* names one object
ReRegisterIssuer ==
  /\ ISSUER_REGISTRY[EditedDid].ref = JPMORGAN_ISSUER.ref
  /\ ISSUER_REGISTRY' = registerIssuer(ISSUER_REGISTRY, ReRegisteredIssuer)
  /\ last' = [op |-> "registerIssuer", did |-> EditedDid]
  /\ UNCHANGED <<inflight, now, kycDatabase, held>>

\* getIssuerByDid(did).name = ..., getIssuerByDid(did).tier = ...
AssignIssuerField ==
  \E change \in {[field |-> "name", to |-> "J.P. Morgan"], [field |-> "tier", to |-> 3]} :
    /\ ISSUER_REGISTRY[EditedDid][change.field] # change.to
    /\ ISSUER_REGISTRY' =
         [ISSUER_REGISTRY EXCEPT ![EditedDid][change.field] = change.to]
    /\ last' = [op |-> "assignIssuerField", did |-> EditedDid, field |-> change.field]
    /\ UNCHANGED <<inflight, now, kycDatabase, held>>

ListFields == {"jurisdiction", "regulators"}

\* the credential's issuer block holds the list arrays of this record object
SharesLists(entry, issuer) == entry.issuer.ref = issuer.ref

\* getIssuerByDid(did).jurisdiction.push(item), and the same for regulators:
\* the array is changed in place, for every holder of a reference to it
PushIssuerList ==
  \E field \in ListFields :
    LET issuer == ISSUER_REGISTRY[EditedDid]
        pushed == Append(issuer[field], "EU")
    IN
    /\ "EU" \notin Range(issuer[field])
    /\ ISSUER_REGISTRY' = [ISSUER_REGISTRY EXCEPT ![EditedDid][field] = pushed]
    /\ held' =
         IF held # <<>> /\ SharesLists(held[1], issuer)
           THEN << [held[1] EXCEPT !.credential =
                      SetIn(@, "issuer", field, JStrings(pushed))] >>
           ELSE held
    /\ last' = [op |-> "pushIssuerList", did |-> EditedDid, field |-> field]
    /\ UNCHANGED <<inflight, now, kycDatabase>>

NextSnapshot ==
  \/ ReRegisterIssuer
  \/ AssignIssuerField
  \/ PushIssuerList
  \/ Issue
  \/ Revoke
  \/ Drop

SpecSnapshot == Init /\ [][NextSnapshot]_vars

(***************************************************************************)
(* The issuance entry points: issueCredential, batchIssueCredentials and   *)
(* the two routes, called with requests that are valid, that fail, and     *)
(* that carry an expiry of no days or an empty jurisdiction list.          *)
(***************************************************************************)
EntryRequest(kycId, did, level, accredited, jurisdiction, expiryDays) ==
  [customerKycId |-> kycId, issuerDid |-> did, kycLevel |-> level,
   accreditedInvestor |-> accredited, jurisdiction |-> jurisdiction,
   expiryDays |-> expiryDays, signatureAlgorithm |-> Undefined]

EntryRequests ==
  { EntryRequest("KYC-001", JPMORGAN_ISSUER.did, "enhanced", TRUE, <<"US">>, Undefined),
    EntryRequest("KYC-001", JPMORGAN_ISSUER.did, "enhanced", TRUE, <<"US">>, JNum(1)),
    EntryRequest("KYC-001", JPMORGAN_ISSUER.did, "enhanced", TRUE, <<"US">>, JNum(0)),
    EntryRequest("KYC-001", JPMORGAN_ISSUER.did, "enhanced", TRUE, <<>>, Undefined),
    EntryRequest("KYC-002", GOLDMAN_SACHS_ISSUER.did, "basic", FALSE, <<"US">>, Undefined),
    EntryRequest("KYC-404", JPMORGAN_ISSUER.did, "basic", FALSE, <<"US">>, Undefined) }

\* the request lists sent in one batch
BatchLists ==
  UNION { [1..n -> EntryRequests] : n \in 0..MaxBatch }

\* a call that leaves the stores and the clock as they are meets, right after
\* another such call, the stores that call met and has the same outcomes, so
\* it is not explored again
AfterStoreStep == last.op \in {"init", "tick", "upsertCustomerKYC", "drop"}

\* a direct call of issueCredential
IssueEntry == held = <<>> /\ AfterStoreStep /\ IssueBy(EntryRequests, {"0"})

\* a direct call of batchIssueCredentials
BatchIssue ==
  \E requests \in BatchLists :
    /\ held = <<>> /\ AfterStoreStep
    /\ last' = [op |-> "batch", requests |-> requests, at |-> now,
                result |-> batchIssueCredentials(requests, ISSUER_REGISTRY,
                                                 kycDatabase, now, "0")]
    /\ UNCHANGED <<inflight, now, ISSUER_REGISTRY, kycDatabase, held>>

PostIssue ==
  \E request \in EntryRequests :
    /\ held = <<>> /\ AfterStoreStep
    /\ last' = [op |-> "postIssue", request |-> request, at |-> now,
                response |-> postCredentialsIssue(request, ISSUER_REGISTRY,
                                                  kycDatabase, now, "0")]
    /\ UNCHANGED <<inflight, now, ISSUER_REGISTRY, kycDatabase, held>>

PostBatchIssue ==
  \E requests \in BatchLists :
    /\ held = <<>> /\ AfterStoreStep
    /\ last' = [op |-> "postBatchIssue", requests |-> requests, at |-> now,
                response |-> postCredentialsBatchIssue(requests, ISSUER_REGISTRY,
                                                       kycDatabase, now, "0")]
    /\ UNCHANGED <<inflight, now, ISSUER_REGISTRY, kycDatabase, held>>

NextEntry ==
  \/ Tick
  \/ UpsertCustomerKYC
  \/ IssueEntry
  \/ BatchIssue
  \/ PostIssue
  \/ PostBatchIssue
  \/ Drop

SpecEntry == Init /\ [][NextEntry]_vars


(***************************************************************************)
(* Properties.                                                             *)
(***************************************************************************)
EXPIRED == "Credential has expired"
DECOMMISSIONED == "Credential has been decommissioned"
UNKNOWN_ISSUER == "Unknown issuer"
INVALID_SIGNATURE == "Invalid signature"
COMPLIANCE_ERROR == "Customer has not passed all required KYC checks"

Holding == held # <<>>
Cred == held[1].credential
Verified == last.op = "verify"
IssuerIdOf(credential) == Get(Get(credential, "issuer"), "id").s
ExpirationOf(credential) == ParseDate(Get(credential, "expirationDate").s)
IssuanceOf(credential) == ParseDate(Get(credential, "issuanceDate").s)
Payload(credential) == SpreadWithout(credential, "proof")

\* the credential is as issueCredential returned it, the issuer record it was
\* issued under is still the registered one, and no time has passed
FreshlyIssued ==
  /\ Holding
  /\ held[1].count = 0
  /\ getIssuerByDid(ISSUER_REGISTRY, IssuerIdOf(Cred)) = held[1].issuer
  /\ now = IssuanceOf(Cred)

\* C1: verifying a credential right after issueCredential returned it, with
\* the registry unchanged, gives valid = true and no errors, for every
\* accepted request (signatureAlgorithm absent, 'Ed25519' or 'secp256k1').
C1_RoundTrip ==
  (Verified /\ FreshlyIssued) =>
    (last.result.valid /\ last.result.errors = <<>>)

SignedFieldKinds ==
  {"credentialSubject.id", "claims.kycLevel", "amountVerifiedFor.value", "tier"}

\* C2: after one signed field of an issued credential (subject id, a claim,
\* the verified amount, the tier) is changed, verifyCredential returns
\* valid = false and reports the invalid signature.
C2_TamperSensitive ==
  (Verified /\ Holding /\ held[1].count = 1
     /\ held[1].edits \subseteq SignedFieldKinds) =>
    (/\ ~last.result.valid
     /\ INVALID_SIGNATURE \in Range(last.result.errors))

RECURSIVE SameValues(_, _)
\* equal field values at every nesting level, whatever the insertion order
SameValues(a, b) ==
  /\ a.k = b.k
  /\ CASE a.k = "o" ->
            /\ Range(Keys(a)) = Range(Keys(b))
            /\ Len(a.o) = Len(b.o)
            /\ \A key \in Range(Keys(a)) : SameValues(Get(a, key), Get(b, key))
       [] a.k = "a" ->
            /\ Len(a.a) = Len(b.a)
            /\ \A i \in 1..Len(a.a) : SameValues(a.a[i], b.a[i])
       [] OTHER -> a = b

\* an edit was just made: the payload it was made from and the one it made
JustEdited == Holding /\ last.op \in {"reorder", "tamper", "revoke"}

\* C3: two payloads with equal field values at every nesting level have the
\* same canonical string, whatever the order their fields were inserted in.
C3_CanonicalOrderFree ==
  (JustEdited /\ SameValues(Payload(last.input), Payload(Cred))) =>
    Canonicalize(Payload(last.input)) = Canonicalize(Payload(Cred))

\* two payloads that differ in insertion order only are at hand
C3_Witness ==
  /\ JustEdited
  /\ SameValues(Payload(last.input), Payload(Cred))
  /\ Keys(Payload(last.input)) # Keys(Payload(Cred))
  /\ Get(Payload(last.input), "issuer") # Get(Payload(Cred), "issuer")
  /\ Canonicalize(Payload(last.input)) = Canonicalize(Payload(Cred))

\* C4: verifyCredential does not report the expired error at the instant equal
\* to expirationDate and reports it at every later instant.
C4_ExpirationBoundary ==
  (Verified /\ Holding /\ ExpirationOf(Cred) # NaN) =>
    (EXPIRED \in Range(last.result.errors) <=> last.at > ExpirationOf(Cred))

\* a credential is verified at the very instant of its expirationDate
C4_Witness ==
  /\ Verified /\ Holding
  /\ last.at = ExpirationOf(Cred)
  /\ EXPIRED \notin Range(last.result.errors)

DecommissionedAt(credential) == Get(credential, "decommissionedAt")

\* C5: a credential revoked once or twice verifies as not valid; revoking an
\* already revoked credential returns a credential whose decommissionedAt is
\* a timestamp not earlier than the one it had.
C5_RevocationIdempotent ==
  /\ (Verified /\ Holding /\ "revoke" \in held[1].edits) => ~last.result.valid
  /\ (Holding /\ last.op = "revoke") =>
       /\ DecommissionedAt(Cred).k = "s"
       /\ DecommissionedAt(last.input) # JNull =>
            ParseDate(DecommissionedAt(Cred).s)
              >= ParseDate(DecommissionedAt(last.input).s)

\* a credential revoked twice, at different instants, and nothing else, is verified
C5_Witness ==
  /\ Verified /\ Holding
  /\ held[1].edits = {"revoke"} /\ held[1].count = 2
  /\ ParseDate(DecommissionedAt(Cred).s) > IssuanceOf(Cred)
  /\ ~last.result.valid

\* a step of revokeCredential
RevokeStep == last'.op = "revoke" /\ <<held, last>>' # <<held, last>>

\* C6: revokeCredential leaves its input as it was, returns a credential equal
\* to it in every field but decommissionedAt, which is the current time, and
\* changes neither the issuer registry nor the KYC store.
C6_RevokePure ==
  [][RevokeStep =>
       /\ last'.input = held[1].credential
       /\ Keys(held'[1].credential) = Keys(held[1].credential)
       /\ \A key \in Range(Keys(held[1].credential)) \ {"decommissionedAt"} :
            Get(held'[1].credential, key) = Get(held[1].credential, key)
       /\ DecommissionedAt(held'[1].credential) = JStr(toISOString(now))
       /\ ISSUER_REGISTRY' = ISSUER_REGISTRY
       /\ kycDatabase' = kycDatabase]_vars

\* an active credential has been revoked: the input is still active
C6_Witness ==
  /\ Holding /\ last.op = "revoke"
  /\ DecommissionedAt(last.input) = JNull
  /\ DecommissionedAt(Cred) # JNull

\* the request reaches step 3 and the record fails a compliance check
FailsCompliance(request) ==
  /\ request.issuerDid \in DOMAIN ISSUER_REGISTRY
  /\ request.customerKycId \in DOMAIN kycDatabase
  /\ \E check \in {"amlScreening", "sanctionsCheck", "pepScreening"} :
       kycDatabase[request.customerKycId][check] \in {"failed", "pending"}

\* C7: issueCredential fails with the compliance error and returns no
\* credential whenever one of the customer's three checks is not 'passed'.
C7_ComplianceGate ==
  (last.op = "issue" /\ FailsCompliance(last.request)) =>
    (last.threw /\ last.error = COMPLIANCE_ERROR /\ held = <<>>)

\* a request valid in everything else is refused for the sanctions check alone
C7_Witness ==
  /\ last.op = "issue" /\ FailsCompliance(last.request)
  /\ LET kyc == kycDatabase[last.request.customerKycId] IN
       /\ kyc.sanctionsCheck = "failed"
       /\ kyc.amlScreening = "passed" /\ kyc.pepScreening = "passed"
       /\ last.request.kycLevel = kyc.kycLevel
       /\ last.request.accreditedInvestor = kyc.accreditedInvestor
  /\ last.error = COMPLIANCE_ERROR

IssuerResolves == IssuerIdOf(Cred) \in DOMAIN ISSUER_REGISTRY

\* the proof value is the registered issuer's signature of the payload
SignatureHolds ==
  LET issuer == ISSUER_REGISTRY[IssuerIdOf(Cred)] IN
  verifySignature(Canonicalize(Payload(Cred)),
                  Get(Get(Cred, "proof"), "proofValue").s,
                  issuer.publicKey, issuer.signatureAlgorithm).value

Sub(cond, entry) == IF cond THEN <<entry>> ELSE <<>>

\* C8: with the issuer registered, the errors are exactly those of expired,
\* decommissioned, invalid signature, in that order, whose condition holds.
C8_NonShortCircuit ==
  (Verified /\ Holding /\ IssuerResolves) =>
    last.result.errors =
      Sub(DateAfter(last.at, ExpirationOf(Cred)), EXPIRED)
        \o Sub(DecommissionedAt(Cred) # JNull, DECOMMISSIONED)
        \o Sub(~SignatureHolds, INVALID_SIGNATURE)

\* an expired, revoked and badly signed credential yields the three entries
C8_Witness ==
  /\ Verified /\ Holding /\ IssuerResolves
  /\ last.result.errors = <<EXPIRED, DECOMMISSIONED, INVALID_SIGNATURE>>

\* C9 as stated: with the issuer not registered, valid = false and the errors
\* are the unknown-issuer entry alone, whatever the expiration and revocation.
C9_OnlyUnknownIssuer ==
  (Verified /\ Holding /\ ~IssuerResolves) =>
    (~last.result.valid /\ last.result.errors = <<UNKNOWN_ISSUER>>)

\* C9 amended: with the issuer not registered the signature is not checked,
\* valid = false, and the errors are the expired and decommissioned entries
\* whose condition holds followed by the unknown-issuer entry, without the
\* invalid-signature entry.
C9_UnknownIssuerLast ==
  (Verified /\ Holding /\ ~IssuerResolves) =>
    /\ ~last.result.valid
    /\ ~last.result.sigChecked
    /\ last.result.errors =
         Sub(DateAfter(last.at, ExpirationOf(Cred)), EXPIRED)
           \o Sub(DecommissionedAt(Cred) # JNull, DECOMMISSIONED)
           \o <<UNKNOWN_ISSUER>>

\* a revoked credential of an unregistered issuer is verified
C9_Witness ==
  /\ Verified /\ Holding /\ ~IssuerResolves
  /\ last.result.errors = <<DECOMMISSIONED, UNKNOWN_ISSUER>>

\* C10: valid = true exactly when there are no errors and the signature check
\* ran and passed; then the credential is not expired, not decommissioned and
\* its issuer is registered.
C10_ValidIff ==
  (Verified /\ Holding) =>
    /\ last.result.valid <=>
         (/\ last.result.errors = <<>>
          /\ last.result.sigChecked
          /\ last.result.sigValid)
    /\ last.result.valid =>
         /\ ~DateAfter(last.at, ExpirationOf(Cred))
         /\ DecommissionedAt(Cred) = JNull
         /\ IssuerResolves

\* a correctly signed credential is refused because it has expired
C10_Witness ==
  /\ Verified /\ Holding
  /\ last.result.sigChecked /\ last.result.sigValid
  /\ ~last.result.valid
\* the credential presented is malformed, or its issuer's record names an
\* algorithm the service does not know
MalformedInput ==
  /\ Holding
  /\ \/ held[1].edits \cap MalformKinds # {}
     \/ /\ ~Nullish(Get(Cred, "issuer"))
        /\ IssuerIdOf(Cred) \in DOMAIN ISSUER_REGISTRY
        /\ ISSUER_REGISTRY[IssuerIdOf(Cred)].signatureAlgorithm
             \notin {"Ed25519", "secp256k1"}

\* C11: verifyCredential returns, for a credential with the issuer or the
\* proof missing, a proof value of wrong length or with characters that are
\* no hex digits, or an issuer record with an unrecognized algorithm, a
\* result with valid = false and at least one entry in errors.
C11_FailsClosed ==
  (Verified /\ MalformedInput) =>
    (~last.result.valid /\ Len(last.result.errors) >= 1)
Batched == last.op = "batch"

\* issueCredential on the i-th request of the batch alone, against the stores
\* and at the clock reading the batch met
Alone(i) ==
  issueCredential(last.requests[i], ISSUER_REGISTRY, kycDatabase, last.at, "0")

Succeeding == {i \in 1..Len(last.requests) : ~Alone(i).threw}
Failing == {i \in 1..Len(last.requests) : Alone(i).threw}

\* C12: batchIssueCredentials returns for every list of requests, puts every
\* request in exactly one of successful and failed, and a request is in
\* successful exactly when issueCredential on it alone succeeds against the
\* same stores.
C12_BatchIsolation ==
  Batched =>
    /\ Len(last.result.successful) + Len(last.result.failed) = Len(last.requests)
    /\ Len(last.result.successful) = Cardinality(Succeeding)
    /\ Len(last.result.failed) = Cardinality(Failing)
    /\ Range(last.result.successful) = {Alone(i).value : i \in Succeeding}
    /\ {f.request : f \in Range(last.result.failed)}
         = {last.requests[i] : i \in Failing}

\* a failing request stands before a succeeding one in the same batch
C12_Witness ==
  /\ Batched
  /\ Len(last.requests) = 2
  /\ Failing = {1} /\ Succeeding = {2}
  /\ Len(last.result.successful) = 1 /\ Len(last.result.failed) = 1

\* the members of a set of positions in increasing order
RECURSIVE InOrder(_)
InOrder(positions) ==
  IF positions = {} THEN <<>>
  ELSE LET least == CHOOSE i \in positions : \A j \in positions : i <= j
       IN <<least>> \o InOrder(positions \ {least})

\* C13: successful holds the credentials in the order of the requests that
\* produced them, failed holds its entries in the order of their requests,
\* and each failed entry carries its request and that request's error.
C13_BatchOrder ==
  Batched =>
    /\ last.result.successful
         = [j \in 1..Cardinality(Succeeding) |-> Alone(InOrder(Succeeding)[j]).value]
    /\ last.result.failed
         = [j \in 1..Cardinality(Failing) |->
              [request |-> last.requests[InOrder(Failing)[j]],
               error |-> Alone(InOrder(Failing)[j]).error]]

\* two different credentials come out of one batch, in the order asked for
C13_Witness ==
  /\ Batched
  /\ Succeeding = {1, 2}
  /\ Alone(1).value # Alone(2).value
  /\ last.result.successful = <<Alone(1).value, Alone(2).value>>

\* the day count the request supplies, 365 when it supplies none
RequestedDays(request) ==
  IF request.expiryDays = Undefined THEN DefaultExpiryDays
  ELSE request.expiryDays.n

\* C16: the expirationDate of an issued credential is its issuanceDate plus
\* the expiryDays the request supplies, whatever that value is, and plus 365
\* days when the request supplies none.
C16_ExpiryDays ==
  (last.op = "issue" /\ ~last.threw /\ Holding) =>
    ExpirationOf(Cred) = AddDays(IssuanceOf(Cred), RequestedDays(last.request))

\* C17: any two credentials issued have different id strings, two issued
\* for the same issuer and subject within one clock tick included.
C17_UniqueIds ==
  Batched =>
    \A i, j \in 1..Len(last.result.successful) :
      i # j => Get(last.result.successful[i], "id")
                 # Get(last.result.successful[j], "id")

JurisdictionsOf(credential) ==
  Get(Get(credential, "credentialSubject"), "jurisdictions")

NonEmptyJurisdictions(credential) ==
  /\ JurisdictionsOf(credential).k = "a"
  /\ Len(JurisdictionsOf(credential).a) >= 1

\* C19: every credential that issueCredential, batchIssueCredentials, POST
\* /credentials/issue or POST /credentials/batch-issue produces has a
\* non-empty credentialSubject.jurisdictions list.
C19_JurisdictionsNonEmpty ==
  /\ (last.op = "issue" /\ ~last.threw /\ Holding) => NonEmptyJurisdictions(Cred)
  /\ Batched =>
       \A c \in Range(last.result.successful) : NonEmptyJurisdictions(c)
  /\ (last.op = "postIssue" /\ last.response.status = 201) =>
       NonEmptyJurisdictions(last.response.credential)
  /\ (last.op = "postBatchIssue" /\ last.response.status = 200) =>
       \A c \in Range(last.response.credentials) : NonEmptyJurisdictions(c)
\* the issuer block issueCredential builds from an issuer record
IssuerBlockOf(issuer) ==
  JObj(<< E("id", JStr(issuer.did)),
          E("name", JStr(issuer.name)),
          E("jurisdiction", JStrings(issuer.jurisdiction)),
          E("regulators", JStrings(issuer.regulators)),
          E("tier", JNum(issuer.tier)) >>)

\* C14: whatever is done to the issuer's registry record after issuance
\* (re-registration with other details, a change of its name, tier,
\* jurisdiction list or regulator list), the issuer block of the credential
\* stays the one made from the record as it was at issuance.
C14_IssuerSnapshot ==
  Holding => Get(Cred, "issuer") = IssuerBlockOf(held[1].issuer)
\* a step in which issueCredential is called
IssueStep == last'.op = "issue" /\ last' # last

\* C15: a call of issueCredential, whether it succeeds or fails at any step,
\* leaves the issuer registry and the KYC store as they were, and a failed
\* call returns no credential.
C15_IssueFrame ==
  [][IssueStep =>
       /\ ISSUER_REGISTRY' = ISSUER_REGISTRY
       /\ kycDatabase' = kycDatabase
       /\ last'.threw => held' = held]_vars

\* a call has failed at the signing step, the last one that can fail
C15_Witness ==
  /\ last.op = "issue" /\ last.threw
  /\ last.error = "Unsupported signature algorithm: RSA"
  /\ held = <<>>

ComplianceChecks == {"amlScreening", "sanctionsCheck", "pepScreening"}

FailedChecks(kycData) == {check \in ComplianceChecks : kycData[check] # "passed"}

\* C18: the error of a request refused for compliance names the checks that
\* failed: a request for a customer failing other checks is refused with
\* another error.
C18_ErrorNamesChecks ==
  (last.op = "issue" /\ FailsCompliance(last.request)) =>
    \A other \in Requests :
      (/\ FailsCompliance(other)
       /\ FailedChecks(kycDatabase[other.customerKycId])
            # FailedChecks(kycDatabase[last.request.customerKycId])) =>
        issueCredential(other, ISSUER_REGISTRY, kycDatabase, now, "0").error
          # last.error

\* the error of the first of steps 1 to 4 the request fails, "" when it
\* passes them all
FirstFailure(request) ==
  LET kycData == kycDatabase[request.customerKycId] IN
  IF request.issuerDid \notin DOMAIN ISSUER_REGISTRY
    THEN "Invalid issuer DID: " \o request.issuerDid
  ELSE IF request.customerKycId \notin DOMAIN kycDatabase
    THEN "Customer not found: " \o request.customerKycId
  ELSE IF FailedChecks(kycData) # {}
    THEN COMPLIANCE_ERROR
  ELSE IF request.kycLevel # kycData.kycLevel
    THEN "KYC level mismatch: requested " \o request.kycLevel
         \o ", customer has " \o kycData.kycLevel
  ELSE IF request.accreditedInvestor # kycData.accreditedInvestor
    THEN "Accredited investor status mismatch"
  ELSE ""

\* C20: issueCredential tests issuer, customer, screening, KYC level and
\* accreditation in that order and reports the error of the first test the
\* request fails, and of no other.
C20_FirstFailingStep ==
  (last.op = "issue" /\ FirstFailure(last.request) # "") =>
    (last.threw /\ last.error = FirstFailure(last.request))

\* a customer who fails the screening is asked for at a level that is not
\* theirs: the screening is what is reported
C20_Witness ==
  /\ last.op = "issue"
  /\ last.request.issuerDid \in DOMAIN ISSUER_REGISTRY
  /\ FailsCompliance(last.request)
  /\ last.request.kycLevel # kycDatabase[last.request.customerKycId].kycLevel
  /\ last.error = COMPLIANCE_ERROR
\* issueCredential has just returned the credential held
Issued == last.op = "issue" /\ ~last.threw /\ Holding

\* the algorithm the request asks for, the issuer's registered one when it
\* asks for none
RequestedAlgorithm ==
  IF last.request.signatureAlgorithm = Undefined
    THEN held[1].issuer.signatureAlgorithm
    ELSE last.request.signatureAlgorithm.s

ProofTypeOf(credential) == Get(Get(credential, "proof"), "type").s

\* C21: the credential is signed under the request's signatureAlgorithm when
\* the request has one and under the issuer's registered one otherwise, and
\* its proof.type is 'Ed25519Signature2020' exactly when that algorithm is
\* 'Ed25519' and 'EcdsaSecp256k1Signature2019' exactly when it is 'secp256k1'.
C21_AlgorithmAndProofType ==
  Issued =>
    /\ ProofValueOf(Cred).s
         = signCredential(Canonicalize(Payload(Cred)), held[1].issuer.privateKey,
                          RequestedAlgorithm).value
    /\ ProofTypeOf(Cred) = "Ed25519Signature2020" <=> RequestedAlgorithm = "Ed25519"
    /\ ProofTypeOf(Cred) = "EcdsaSecp256k1Signature2019"
         <=> RequestedAlgorithm = "secp256k1"

\* an Ed25519 issuer has issued under secp256k1 because the request asked so
C21_Witness ==
  /\ Issued
  /\ held[1].issuer.signatureAlgorithm = "Ed25519"
  /\ last.request.signatureAlgorithm = JStr("secp256k1")
  /\ ProofTypeOf(Cred) = "EcdsaSecp256k1Signature2019"

\* C22: the algorithm a credential is signed under is the one of the curve
\* of the issuer's key, the issuer's registered signatureAlgorithm.
C22_AlgorithmMatchesKey ==
  Issued =>
    \E kp \in KeyPairs :
      /\ kp.privateKey = held[1].issuer.privateKey
      /\ kp.algorithm = held[1].issuer.signatureAlgorithm
      /\ ProofValueOf(Cred).s
           = signCredential(Canonicalize(Payload(Cred)), kp.privateKey,
                            kp.algorithm).value
SupportedAlgorithms == {"Ed25519", "secp256k1"}

UNSUPPORTED(algorithm) == "Unsupported signature algorithm: " \o algorithm

\* the tag a request is signed under; the registry is the one the call met
EffectiveAlgorithm(request) ==
  IF request.signatureAlgorithm = Undefined
    THEN ISSUER_REGISTRY[request.issuerDid].signatureAlgorithm
    ELSE request.signatureAlgorithm.s

\* the request passes steps 1 to 4 and reaches the signing with a tag the
\* signature module does not know
ReachesUnsupported(request) ==
  /\ FirstFailure(request) = ""
  /\ EffectiveAlgorithm(request) \notin SupportedAlgorithms

SubjectOf(credential) == Get(credential, "credentialSubject")
ClaimsOf(credential) == Get(SubjectOf(credential), "claims")
KycRecordRead == kycDatabase[last.request.customerKycId]

\* C24: an issued credential mirrors the KYC record read at issuance: the three
\* screenings are 'passed', kycLevel and accreditedInvestor equal both the
\* request's and the record's, and tier and amountVerifiedFor are the
\* record's tier, verifiedAmount and currency.
C24_MirrorsKycRecord ==
  Issued =>
    /\ Get(ClaimsOf(Cred), "amlScreening") = JStr("passed")
    /\ Get(ClaimsOf(Cred), "sanctionsCheck") = JStr("passed")
    /\ Get(ClaimsOf(Cred), "pepScreening") = JStr("passed")
    /\ Get(ClaimsOf(Cred), "kycLevel") = JStr(last.request.kycLevel)
    /\ Get(ClaimsOf(Cred), "kycLevel") = JStr(KycRecordRead.kycLevel)
    /\ Get(ClaimsOf(Cred), "accreditedInvestor")
         = JBool(last.request.accreditedInvestor)
    /\ Get(ClaimsOf(Cred), "accreditedInvestor")
         = JBool(KycRecordRead.accreditedInvestor)
    /\ Get(SubjectOf(Cred), "tier") = JNum(KycRecordRead.tier)
    /\ Get(SubjectOf(Cred), "amountVerifiedFor")
         = JObj(<<E("value", JNum(KycRecordRead.verifiedAmount)),
                  E("currency", JStr(KycRecordRead.currency))>>)

\* a credential issued from the record of KYC-002: basic, not accredited, tier 3
C24_Witness ==
  /\ Issued
  /\ last.request.customerKycId = "KYC-002"
  /\ Get(ClaimsOf(Cred), "kycLevel") = JStr("basic")
  /\ Get(ClaimsOf(Cred), "accreditedInvestor") = JBool(FALSE)
  /\ Get(SubjectOf(Cred), "tier") = JNum(3)
Resumed == last.op = "resume"

\* C25: a call resumed after other calls began and the stores were updated
\* returns the credential issueCredential gives, without interleaving, on the
\* stores as they were at the instant of its lookups: one issuer record and
\* one KYC record of that instant, whatever else is in flight.
C25_NoLockingNeeded ==
  Resumed =>
    /\ last.out = issueCredential(last.call.frame.request, last.call.registry,
                                  last.call.db, last.call.frame.at,
                                  last.call.frame.tokenId)
    /\ ~last.out.threw
    /\ last.call.frame.issuer = last.call.registry[last.call.frame.request.issuerDid]
    /\ last.call.frame.kycData = last.call.db[last.call.frame.request.customerKycId]
    /\ Get(SubjectOf(last.out.value), "tier") = JNum(last.call.frame.kycData.tier)
    /\ Get(Get(last.out.value, "issuer"), "id") = JStr(last.call.frame.issuer.did)

\* a call returns while another is suspended, after the issuer's record was
\* replaced and the customer's record deleted
C25_Witness ==
  /\ Resumed
  /\ \E other \in inflight : other.frame.request # last.call.frame.request
  /\ ISSUER_REGISTRY[JPMORGAN_ISSUER.did] # last.call.frame.issuer
  /\ last.call.frame.request.customerKycId \notin DOMAIN kycDatabase
  /\ ~last.out.threw
\* the issuer record in the registry now, and the one the credential was issued under
CurrentRecord == ISSUER_REGISTRY[IssuerIdOf(Cred)]
IssuanceRecord == held[1].issuer
Untouched == Holding /\ held[1].count = 0

\* C26: the signature is checked against the record now in the registry: once
\* registerIssuer has replaced the issuer's record with one of another key
\* pair, a credential issued under the previous record verifies with
\* valid = false and the invalid-signature error, and an unexpired credential
\* issued under the replacing record verifies as valid.
C26_KeyRotation ==
  (Verified /\ Untouched /\ IssuerResolves) =>
    /\ CurrentRecord.publicKey # IssuanceRecord.publicKey =>
         /\ ~last.result.valid
         /\ INVALID_SIGNATURE \in Range(last.result.errors)
    /\ (/\ CurrentRecord = IssuanceRecord
        /\ CurrentRecord # InitialIssuerRegistry[IssuerIdOf(Cred)]
        /\ ~DateAfter(last.at, ExpirationOf(Cred))) =>
         last.result.valid
\* the credential presented is unexpired and its edits are exactly these, one each
Presented(edits) ==
  /\ Verified /\ Holding /\ IssuerResolves
  /\ ~DateAfter(last.at, ExpirationOf(Cred))
  /\ held[1].edits = edits
  /\ held[1].count = Cardinality(edits)

\* C27: decommissionedAt is signed: for an issued, unexpired credential c of a
\* registered issuer, verifying revokeCredential(c) reports the decommissioned
\* entry and then the invalid-signature entry, and the revoked copy with
\* decommissionedAt set back to null verifies as valid.
C27_RevocationSigned ==
  /\ Presented({"revoke"}) =>
       last.result.errors = <<DECOMMISSIONED, INVALID_SIGNATURE>>
  /\ Presented({"revoke", "restore"}) => last.result.valid
====
